---- MODULE Spec2Model ----
(***************************************************************************)
(* LED ticker (src/main.py): the content registry, the scheduler, the      *)
(* crossfade controller driven by Main.tick, and the operator handlers     *)
(* that change the live content.                                           *)
(*                                                                         *)
(* Time.  datetime.now() is the variable clock, counted in clock units.    *)
(* UnitsPerMs units make one millisecond, so an elapsed time below one     *)
(* millisecond is representable.  The calendar is scaled: a day lasts      *)
(* DayLen units and an "HH:MM" text <<h, m>> names the unit                *)
(* h * UnitsPerHour + m of the day.                                        *)
(*                                                                         *)
(* Optional values.  Python's None is the string None for names, NoTime    *)
(* for a timestamp, and the empty sequence for an optional object (a       *)
(* strip is <<>> or <<s>>, a scheduler entry is <<>> or <<e>>).            *)
(***************************************************************************)
EXTENDS Integers, Sequences, FiniteSets, TLC

VARIABLES
  contents,             \* Main.contents: dict name -> ContentItem, in insertion order
  contents_list,        \* Main.contents_list: the names listed in the list widget
  cur_row,              \* contents_list.currentRow(), 1-based; 0 = no current item
  entries,              \* Main.scheduler.entries
  live_source,          \* "scheduler" | "manual"
  live_content_name,
  current_content_name,
  next_content_name,
  strip_curr,
  strip_next,
  crossfade_active,
  crossfade_start,
  crossfade_ms,
  offset,
  speed,                \* Main.speed.value() = cfg.speed_px_per_frame
  clock,                \* datetime.now()
  last                  \* what the last handler did and, for a tick, the frame it
                        \* handed to the preview (history)

vars == <<contents, contents_list, cur_row, entries, live_source, live_content_name,
          current_content_name, next_content_name, strip_curr, strip_next,
          crossfade_active, crossfade_start, crossfade_ms, offset, speed,
          clock, last>>

----------------------------------------------------------------------------
(* Bounds of the model *)

UnitsPerMs == 2
UnitsPerHour == 2
DayLen == 4
MaxClock == 5
MaxOffset == 8
MaxDelay == 1

(* Program constants *)

DefaultFadeMs == 800
DefaultSpeed == 4

----------------------------------------------------------------------------
(* Python values *)

None == "<None>"
NoTime == -1
SchedulerAuto == "Scheduler (auto)"
Black == <<0, 0, 0>>
Blue == <<0, 0, 255>>

Falsy(s) == s = None \/ s = ""
Or(a, b) == IF Falsy(a) THEN b ELSE a
Max(a, b) == IF a >= b THEN a ELSE b
Min(a, b) == IF a <= b THEN a ELSE b

(* dict operations on the registry *)
Keys(c) == [i \in DOMAIN c |-> c[i].name]
KeySet(c) == {c[i].name : i \in DOMAIN c}
HasKey(c, n) == \E i \in DOMAIN c : c[i].name = n
Get(c, n) == c[CHOOSE i \in DOMAIN c : c[i].name = n]
Pop(c, n) == SelectSeq(c, LAMBDA x : x.name # n)
FirstKey(c) == IF c = <<>> THEN None ELSE c[1].name

RemoveAt(s, r) == [i \in 1..(Len(s) - 1) |-> IF i < r THEN s[i] ELSE s[i + 1]]

----------------------------------------------------------------------------
(* Scheduler *)

parse_time(s) == s[1] * UnitsPerHour + s[2]

in_range_open_end(t, start, end) ==
  IF start <= end THEN start <= t /\ t < end
  ELSE t >= start \/ t < end

in_range(t, start, end) ==
  IF start <= end THEN start <= t /\ t <= end
  ELSE t >= start \/ t <= end

(* now.date(), now.time(), now.weekday() of the clock reading; day 0 is a Sunday *)
DateOf(now) == now \div DayLen
TimeOf(now) == now % DayLen
WeekdayOf(now) == (DateOf(now) + 6) % 7

DateMatch(e, now) ==
  /\ e.type = "date"
  /\ e.date = DateOf(now)
  /\ in_range(TimeOf(now), parse_time(e.start), parse_time(e.end))

DailyMatch(e, now) ==
  /\ e.type = "daily"
  /\ WeekdayOf(now) \in e.weekdays
  /\ in_range(TimeOf(now), parse_time(e.start), parse_time(e.end))

(* index of the first entry that the first loop (date) or the second loop (daily)
   returns from; 0 when the loop runs out *)
FirstDateMatch(es, now) ==
  IF \E i \in DOMAIN es : DateMatch(es[i], now)
  THEN CHOOSE i \in DOMAIN es :
         DateMatch(es[i], now) /\ \A j \in 1..(i - 1) : ~DateMatch(es[j], now)
  ELSE 0

LastDailyMatch(es, now) ==
  IF \E i \in DOMAIN es : DailyMatch(es[i], now)
  THEN CHOOSE i \in DOMAIN es :
         DailyMatch(es[i], now) /\ \A j \in (i + 1)..Len(es) : ~DailyMatch(es[j], now)
  ELSE 0

FirstDailyMatch(es, now) ==
  IF \E i \in DOMAIN es : DailyMatch(es[i], now)
  THEN CHOOSE i \in DOMAIN es :
         DailyMatch(es[i], now) /\ \A j \in 1..(i - 1) : ~DailyMatch(es[j], now)
  ELSE 0

pick_content_name_in_list_order(es, now) ==
  LET d == FirstDateMatch(es, now)
      w == FirstDailyMatch(es, now)
  IN  IF d # 0 /\ (w = 0 \/ d < w) THEN es[d].content
      ELSE IF w # 0 THEN es[w].content
      ELSE None

pick_content_name(es, now) ==
  LET d == FirstDateMatch(es, now)
      w == FirstDailyMatch(es, now)
  IN  IF d # 0 THEN es[d].content
      ELSE IF w # 0 THEN es[w].content
      ELSE None

choose_target_content_daily_first(es, now) ==
  LET d == FirstDateMatch(es, now)
      w == FirstDailyMatch(es, now)
  IN  IF w # 0 THEN [name |-> es[w].content, entry |-> <<es[w]>>]
      ELSE IF d # 0 THEN [name |-> es[d].content, entry |-> <<es[d]>>]
      ELSE [name |-> None, entry |-> <<>>]

choose_target_content(es, now) ==
  LET d == FirstDateMatch(es, now)
      w == FirstDailyMatch(es, now)
  IN  IF d # 0 THEN [name |-> es[d].content, entry |-> <<es[d]>>]
      ELSE IF w # 0 THEN [name |-> es[w].content, entry |-> <<es[w]>>]
      ELSE [name |-> None, entry |-> <<>>]

----------------------------------------------------------------------------
(* Strips and frames *)

make_strip(name, c) ==
  IF Falsy(name) \/ ~HasKey(c, name) THEN <<>>
  ELSE <<[text |-> IF Get(c, name).text = "" THEN " " ELSE Get(c, name).text,
          bg_rgb |-> Get(c, name).bg_rgb]>>

(* The pixels render_mapped_frame leaves in self.frame_buffer: the fill colour of
   the current content, and the strip sampled at the offset into the tiles. *)
render_mapped_frame(strip, offset_px, cur, c) ==
  LET bg == IF HasKey(c, cur) THEN Get(c, cur).bg_rgb ELSE Black
  IN  IF strip = <<>> THEN [bg |-> bg, strip |-> <<>>, off |-> 0]
      ELSE [bg |-> bg, strip |-> strip, off |-> offset_px]

BlackFrame == [bg |-> Black, strip |-> <<>>, off |-> 0]

(* b drawn over a at opacity num/den: pixelwise a*(1-alpha) + b*alpha *)
composite_crossfade(a, b, num, den) ==
  IF a = b \/ num = 0 THEN a
  ELSE IF num = den THEN b
  ELSE [mix |-> <<a, b>>, num |-> num, den |-> den]

----------------------------------------------------------------------------
(* Presets the program is started with or that the operator loads *)

ItemA == [name |-> "A", text |-> "a", bg_rgb |-> Black]
ItemB == [name |-> "B", text |-> "", bg_rgb |-> Blue]
(* the content __init__ and apply_preset insert for a preset without contents
   (the dash of its text written in ASCII) *)
DefaultItem == [name |-> "Default", text |-> "STUDIO RAYY - ", bg_rgb |-> Black]

AllDays == 0..6

Daily(wd, s, e, c, tr, ms) ==
  [type |-> "daily", weekdays |-> wd, date |-> -1, start |-> s, end |-> e,
   content |-> c, transition |-> tr, fade_ms |-> ms]

OnDate(d, s, e, c, tr, ms) ==
  [type |-> "date", weekdays |-> {}, date |-> d, start |-> s, end |-> e,
   content |-> c, transition |-> tr, fade_ms |-> ms]

Presets ==
  << \* B fades in at 00:01, a content that is in no registry is cut in at 01:00,
     \* A is cut back over midnight
     [contents |-> <<ItemA, ItemB>>, speed |-> <<>>,
      entries |-> << Daily(AllDays, <<0, 1>>, <<0, 1>>, "B", "crossfade", 1),
                     Daily(AllDays, <<1, 0>>, <<1, 0>>, "Ghost", "cut", 0),
                     Daily(AllDays, <<1, 1>>, <<0, 0>>, "A", "cut", 0) >>],
     \* a fade of 0 ms, outranked at 00:01 of day 0 by a date entry whose content
     \* is in no registry
     [contents |-> <<ItemA, ItemB>>, speed |-> <<3>>,
      entries |-> << Daily(AllDays, <<0, 1>>, <<1, 1>>, "B", "crossfade", 0),
                     OnDate(0, <<0, 1>>, <<0, 1>>, "Ghost", "crossfade", 1) >>],
     \* a cut to a content that is in no registry, on Mondays over midnight
     [contents |-> <<ItemB>>, speed |-> <<>>,
      entries |-> << Daily({0}, <<1, 1>>, <<0, 1>>, "Ghost", "cut", 0) >>],
     \* no contents and no entries
     [contents |-> <<>>, speed |-> <<>>, entries |-> <<>>] >>

PresetContents(p) == IF p.contents = <<>> THEN <<DefaultItem>> ELSE p.contents

----------------------------------------------------------------------------
(* History: which handler ran last and what it saw *)

NoFields ==
  [current |-> None, strip_curr |-> <<>>, next |-> None, strip_next |-> <<>>,
   ms |-> -1, active |-> FALSE, start |-> NoTime]

NoLast ==
  [op |-> "init", arg |-> None, pre_current |-> None, pre_active |-> FALSE,
   target |-> None, trans |-> None, fade_ms |-> -1, branch |-> "none",
   decided |-> NoFields, blended |-> FALSE, elapsed |-> -1, a_num |-> 0, a_den |-> 1,
   completed |-> FALSE, frame |-> <<>>]

Did(op, arg) ==
  [NoLast EXCEPT !.op = op, !.arg = arg, !.pre_current = current_content_name,
                 !.pre_active = crossfade_active]

----------------------------------------------------------------------------
(* Main.__init__ *)

Init ==
  \E i \in DOMAIN Presets :
    LET p == Presets[i]
        c == PresetContents(p)
        cur == Or(pick_content_name(p.entries, 0), c[1].name)
    IN  /\ contents = c
        /\ contents_list = Keys(c)
        /\ cur_row = 1
        /\ entries = p.entries
        /\ live_source = "scheduler"
        /\ live_content_name = None
        /\ current_content_name = cur
        /\ next_content_name = None
        /\ strip_curr = make_strip(cur, c)
        /\ strip_next = <<>>
        /\ crossfade_active = FALSE
        /\ crossfade_start = NoTime
        /\ crossfade_ms = DefaultFadeMs
        /\ offset = 0
        /\ speed = IF p.speed = <<>> THEN DefaultSpeed ELSE p.speed[1]
        /\ clock = 0
        /\ last = NoLast

(* Time passes between two handlers *)
Wait ==
  /\ clock < MaxClock
  /\ clock' = clock + 1
  /\ last' = [NoLast EXCEPT !.op = "wait"]
  /\ UNCHANGED <<contents, contents_list, cur_row, entries, live_source,
                 live_content_name, current_content_name, next_content_name,
                 strip_curr, strip_next, crossfade_active, crossfade_start,
                 crossfade_ms, offset, speed>>

----------------------------------------------------------------------------
(* Main.tick.  d is the time that passes between the tick's first reading of the
   clock (the scheduler's choice, crossfade_start) and its reading for elapsed. *)

(* The controller's fields as a record, so that the two halves of tick compose *)
Fields ==
  [current |-> current_content_name, strip_curr |-> strip_curr,
   next |-> next_content_name, strip_next |-> strip_next,
   ms |-> crossfade_ms, active |-> crossfade_active, start |-> crossfade_start]

(* lines 1110-1114 *)
ManualCut(desired) ==
  [Fields EXCEPT !.current = desired, !.strip_curr = make_strip(desired, contents),
                 !.strip_next = <<>>, !.active = FALSE, !.start = NoTime]

(* line 1120 *)
SchedulerActs_ignoring_fade(desired) == desired # current_content_name

SchedulerActs(desired) == desired # current_content_name /\ ~crossfade_active

(* lines 1123-1124 *)
CutTo_stale_strip(desired) == [Fields EXCEPT !.current = desired]

CutTo(desired) ==
  [Fields EXCEPT !.current = desired, !.strip_curr = make_strip(desired, contents)]

(* lines 1126-1130 *)
StartFade(desired, entry) ==
  [Fields EXCEPT !.next = desired, !.strip_next = make_strip(desired, contents),
                 !.ms = IF entry = <<>> THEN DefaultFadeMs ELSE entry[1].fade_ms,
                 !.active = TRUE, !.start = clock]

(* lines 1107-1130: the source decides *)
TickDecide ==
  LET tgt == choose_target_content(entries, clock)
      fallback == FirstKey(contents)
      none == [name |-> None, entry |-> <<>>]
  IN  IF live_source = "manual"
      THEN LET desired == Or(live_content_name, Or(fallback, current_content_name))
           IN  IF desired # current_content_name
               THEN [f |-> ManualCut(desired), branch |-> "manual_cut", tgt |-> none]
               ELSE [f |-> Fields, branch |-> "none", tgt |-> none]
      ELSE LET desired == Or(tgt.name, Or(fallback, current_content_name))
               trans == IF tgt.entry = <<>> THEN "crossfade" ELSE tgt.entry[1].transition
           IN  IF SchedulerActs(desired)
               THEN IF trans = "cut"
                    THEN [f |-> CutTo(desired), branch |-> "cut", tgt |-> tgt]
                    ELSE [f |-> StartFade(desired, tgt.entry), branch |-> "fade_start",
                          tgt |-> tgt]
               ELSE [f |-> Fields, branch |-> "none", tgt |-> tgt]

(* line 1138 *)
TickBlends(f) ==
  live_source = "scheduler" /\ f.active /\ f.strip_next # <<>> /\ f.start # NoTime

(* line 1140: a = max(0.0, min(1.0, elapsed / max(1, crossfade_ms))), as the
   fraction AlphaNum / AlphaDen with elapsed in clock units *)
AlphaDen(ms) == UnitsPerMs * Max(1, ms)
AlphaNum(elapsed, ms) == Max(0, Min(AlphaDen(ms), elapsed))

(* line 1143: elapsed >= self.crossfade_ms *)
FadeDone(elapsed, ms) == elapsed >= UnitsPerMs * ms

(* lines 1144-1148 *)
Complete(f) ==
  [f EXCEPT !.current = f.next, !.strip_curr = f.strip_next, !.strip_next = <<>>,
            !.active = FALSE, !.start = NoTime]

(* lines 1136-1142.  render_mapped_frame returns self.frame_buffer itself: base_curr
   and base_next are one QImage object, which holds the pixels of the second render
   when composite_crossfade reads them. *)
TickFrame(f, off, elapsed) ==
  LET first == render_mapped_frame(f.strip_curr, off, f.current, contents)
      second == render_mapped_frame(f.strip_next, off, f.current, contents)
  IN  IF TickBlends(f)
      THEN composite_crossfade(second, second, AlphaNum(elapsed, f.ms), AlphaDen(f.ms))
      ELSE first

TickBody(d, off) ==
  LET dec == TickDecide
      f == dec.f
      elapsed == clock + d - f.start
      blends == TickBlends(f)
      done == blends /\ FadeDone(elapsed, f.ms)
      g == IF done THEN Complete(f) ELSE f
  IN  /\ current_content_name' = g.current
      /\ strip_curr' = g.strip_curr
      /\ next_content_name' = g.next
      /\ strip_next' = g.strip_next
      /\ crossfade_ms' = g.ms
      /\ crossfade_active' = g.active
      /\ crossfade_start' = g.start
      /\ offset' = off
      /\ clock' = clock + d
      /\ last' = [op |-> "tick", arg |-> None,
                  pre_current |-> current_content_name,
                  pre_active |-> crossfade_active,
                  target |-> dec.tgt.name,
                  trans |-> IF dec.tgt.entry = <<>> THEN None
                            ELSE dec.tgt.entry[1].transition,
                  fade_ms |-> IF dec.tgt.entry = <<>> THEN -1
                              ELSE dec.tgt.entry[1].fade_ms,
                  branch |-> dec.branch,
                  decided |-> f,
                  blended |-> blends,
                  elapsed |-> IF blends THEN elapsed ELSE -1,
                  a_num |-> IF blends THEN AlphaNum(elapsed, f.ms) ELSE 0,
                  a_den |-> IF blends THEN AlphaDen(f.ms) ELSE 1,
                  completed |-> done,
                  frame |-> <<TickFrame(f, off, elapsed)>>]
      /\ UNCHANGED <<contents, contents_list, cur_row, entries, live_source,
                     live_content_name, speed>>

Tick_still_in_manual ==
  \E d \in 0..MaxDelay :
    /\ clock + d <= MaxClock
    /\ offset + speed <= MaxOffset
    /\ TickBody(d, IF live_source = "manual" THEN offset ELSE offset + speed)

Tick ==
  \E d \in 0..MaxDelay :
    /\ clock + d <= MaxClock
    /\ offset + speed <= MaxOffset
    /\ TickBody(d, offset + speed)

----------------------------------------------------------------------------
(* Operator handlers *)

(* The text the live-content combo box shows after refresh_live_content_cb *)
LiveCbText ==
  IF live_source = "manual" /\ HasKey(contents, live_content_name)
  THEN live_content_name ELSE SchedulerAuto

(* The operator picks another item of the combo box: currentTextChanged(text) *)
on_live_content_changed(text) ==
  /\ text \in KeySet(contents) \cup {SchedulerAuto}
  /\ text # LiveCbText
  /\ IF text = SchedulerAuto
     THEN LET target == Or(pick_content_name(entries, clock), FirstKey(contents))
              cuts == ~Falsy(target) /\ target # current_content_name
          IN  /\ live_source' = "scheduler"
              /\ live_content_name' = None
              /\ current_content_name' = IF cuts THEN target ELSE current_content_name
              /\ strip_curr' = IF cuts THEN make_strip(target, contents) ELSE strip_curr
              /\ crossfade_active' = IF cuts THEN FALSE ELSE crossfade_active
              /\ crossfade_start' = IF cuts THEN NoTime ELSE crossfade_start
              /\ strip_next' = IF cuts THEN <<>> ELSE strip_next
     ELSE LET cuts == text # current_content_name
          IN  /\ live_source' = "manual"
              /\ live_content_name' = text
              /\ current_content_name' = text
              /\ strip_curr' = make_strip(text, contents)
              /\ crossfade_active' = IF cuts THEN FALSE ELSE crossfade_active
              /\ crossfade_start' = IF cuts THEN NoTime ELSE crossfade_start
              /\ strip_next' = IF cuts THEN <<>> ELSE strip_next
  /\ last' = Did("live_changed", text)
  /\ UNCHANGED <<contents, contents_list, cur_row, entries, next_content_name,
                 crossfade_ms, offset, speed, clock>>

LiveContentChanged == \E text \in KeySet(contents) \cup {SchedulerAuto} :
                        on_live_content_changed(text)

(* The operator clicks a row of the contents list *)
on_select_content(r) ==
  /\ r \in DOMAIN contents_list
  /\ r # cur_row
  /\ cur_row' = r
  /\ last' = [NoLast EXCEPT !.op = "select"]
  /\ UNCHANGED <<contents, contents_list, entries, live_source, live_content_name,
                 current_content_name, next_content_name, strip_curr, strip_next,
                 crossfade_active, crossfade_start, crossfade_ms, offset, speed, clock>>

SelectContent == \E r \in DOMAIN contents_list : on_select_content(r)

(* The delete button.  QListWidget.takeItem of the current row makes the row below
   it current, or the row above when it was the last one. *)
del_content ==
  /\ cur_row # 0
  /\ LET name == contents_list[cur_row]
         c2 == Pop(contents, name)
         l2 == RemoveAt(contents_list, cur_row)
         unlive == live_source = "manual" /\ live_content_name = name
         wascur == current_content_name = name
         cur2 == Or(FirstKey(c2), "")
     IN  /\ contents' = c2
         /\ contents_list' = l2
         /\ cur_row' = IF cur_row <= Len(l2) THEN cur_row ELSE Len(l2)
         /\ live_source' = IF unlive THEN "scheduler" ELSE live_source
         /\ live_content_name' = IF unlive THEN None ELSE live_content_name
         /\ current_content_name' = IF wascur THEN cur2 ELSE current_content_name
         /\ strip_curr' = IF wascur THEN make_strip(cur2, c2) ELSE strip_curr
         /\ last' = Did("del_content", name)
  /\ UNCHANGED <<entries, next_content_name, strip_next, crossfade_active,
                 crossfade_start, crossfade_ms, offset, speed, clock>>

(* Main.apply_preset with a well-formed preset *)
apply_preset(p) ==
  LET c == PresetContents(p)
      cur == Or(pick_content_name(p.entries, clock), c[1].name)
  IN  /\ contents' = c
      /\ contents_list' = Keys(c)
      /\ cur_row' = 1
      /\ entries' = p.entries
      /\ current_content_name' = cur
      /\ strip_curr' = make_strip(cur, c)
      /\ strip_next' = <<>>
      /\ crossfade_active' = FALSE
      /\ crossfade_start' = NoTime
      /\ offset' = 0
      /\ last' = [NoLast EXCEPT !.op = "apply_preset"]
      /\ UNCHANGED <<live_source, live_content_name, next_content_name, crossfade_ms,
                     speed, clock>>

ApplyPreset == \E i \in DOMAIN Presets : apply_preset(Presets[i])

(* A preset file whose first contents record has no "bg_rgb" *)
ItemNoColour == [name |-> "C", text |-> "c"]

MalformedPresets ==
  << [contents |-> <<ItemNoColour, ItemB>>, speed |-> <<>>, entries |-> <<>>] >>

WellFormedItem(c) == {"name", "text", "bg_rgb"} \subseteq DOMAIN c

(* the records that the loop of lines 1248-1252 turns into ContentItems before
   ContentItem(...) raises KeyError on the first record that lacks a field *)
ItemsBeforeError(cs) ==
  LET bad == CHOOSE k \in DOMAIN cs :
               ~WellFormedItem(cs[k]) /\ \A j \in 1..(k - 1) : WellFormedItem(cs[j])
  IN  SubSeq(cs, 1, bad - 1)

(* Main.load_preset with a malformed preset: apply_preset runs up to the exception
   (lines 1231-1249), which load_preset catches and reports (lines 1178-1179).
   The registry and the list widget have been cleared and refilled up to the bad
   record; the list has no current row; nothing after line 1249 has run. *)
load_preset_error(p) ==
  /\ \E k \in DOMAIN p.contents : ~WellFormedItem(p.contents[k])
  /\ contents' = ItemsBeforeError(p.contents)
  /\ contents_list' = Keys(ItemsBeforeError(p.contents))
  /\ cur_row' = 0
  /\ last' = [NoLast EXCEPT !.op = "load_preset_error"]
  /\ UNCHANGED <<entries, live_source, live_content_name, current_content_name,
                 next_content_name, strip_curr, strip_next, crossfade_active,
                 crossfade_start, crossfade_ms, offset, speed, clock>>

LoadMalformedPreset == \E i \in DOMAIN MalformedPresets :
                         load_preset_error(MalformedPresets[i])

----------------------------------------------------------------------------

Next ==
  \/ Tick
  \/ Wait
  \/ LiveContentChanged
  \/ SelectContent
  \/ del_content
  \/ ApplyPreset
  \/ LoadMalformedPreset

Spec == Init /\ [][Next]_vars

----------------------------------------------------------------------------
(* The tick loop left to run: the timer fires again and again and time passes.
   The offset is kept modulo its bound (no decision reads it), and a fade starts
   only if its duration ends before the clock's bound, so that every fade the
   code can complete can be completed within the bound. *)

FadeFitsClock ==
  crossfade_active => crossfade_start + UnitsPerMs * crossfade_ms <= MaxClock

TickLive ==
  \E d \in 0..MaxDelay :
    /\ clock + d <= MaxClock
    /\ TickBody(d, (offset + speed) % (MaxOffset + 1))
    /\ FadeFitsClock'

LiveNext ==
  \/ TickLive
  \/ Wait
  \/ LiveContentChanged

LiveSpec == Init /\ [][LiveNext]_vars /\ WF_vars(TickLive) /\ WF_vars(Wait)

----------------------------------------------------------------------------
(* Claims *)

AfterTick == last.op = "tick"

(* C1: the frame a fading tick publishes is the linear blend, at the tick's alpha,
   of the frame rendered from the current strip and the frame rendered from the
   next strip. *)
C1_FadeFrameIsBlend ==
  (AfterTick /\ last.blended) =>
    last.frame[1] =
      composite_crossfade(
        render_mapped_frame(last.decided.strip_curr, offset, last.decided.current, contents),
        render_mapped_frame(last.decided.strip_next, offset, last.decided.current, contents),
        last.a_num, last.a_den)

(* C2: every fade that starts is completed: once crossfade_active is set, continued
   ticks with an advancing clock lead to the controller being Idle again. *)
C2_EveryFadeCompletes == crossfade_active ~> ~crossfade_active

(* C3: over the ticks of one fade the alpha is within [0,1], never decreases, and
   is exactly 1 on every tick where elapsed >= fade_ms, so no fade completes on a
   tick whose alpha is below 1. *)
C3_AlphaOnTick ==
  (AfterTick /\ last.blended) =>
    /\ 0 <= last.a_num /\ last.a_num <= last.a_den
    /\ (last.elapsed >= UnitsPerMs * last.decided.ms => last.a_num = last.a_den)
    /\ (last.completed => last.a_num = last.a_den)

C3_AlphaMonotone ==
  (/\ AfterTick /\ last.blended /\ crossfade_active
   /\ last'.op = "tick" /\ last'.blended /\ last'.pre_active)
    => last'.a_num * last.a_den >= last.a_num * last'.a_den

C3_AlphaReachesOne == []C3_AlphaOnTick /\ [][C3_AlphaMonotone]_vars

(* C4: when a fade completes, current becomes the fade's next content, the next
   content name and the next strip are none, and the fade state is cleared. *)
C4_CompletionClearsNext ==
  (AfterTick /\ last.completed) =>
    /\ current_content_name = last.decided.next
    /\ next_content_name = None
    /\ strip_next = <<>>
    /\ ~crossfade_active
    /\ crossfade_start = NoTime

(* C5: while a fade is active, a scheduler-mode tick leaves next_content_name and
   crossfade_ms as they are, and either completes the fade (current becomes the
   fade's next content) or leaves strip_next, crossfade_start and
   current_content_name as they are too, whatever the scheduler proposes. *)
C5_NoRetargetMidFade ==
  [][(last'.op = "tick" /\ crossfade_active /\ live_source = "scheduler") =>
       /\ next_content_name' = next_content_name
       /\ crossfade_ms' = crossfade_ms
       /\ IF last'.completed
          THEN /\ current_content_name' = next_content_name
               /\ strip_curr' = strip_next
          ELSE /\ current_content_name' = current_content_name
               /\ strip_curr' = strip_curr
               /\ strip_next' = strip_next
               /\ crossfade_start' = crossfade_start
               /\ crossfade_active']_vars

(* a tick during a fade that has not run out, with a proposal that is neither the
   current nor the next content *)
C5_Witness ==
  /\ AfterTick /\ last.pre_active /\ last.blended /\ ~last.completed
  /\ live_source = "scheduler"
  /\ ~Falsy(last.target)
  /\ last.target \notin {current_content_name, next_content_name}

(* C6: in Idle and scheduler mode, a proposal C # current with transition crossfade
   makes the controller Fading with next = C, C's strip built, crossfade_start the
   time of the tick and crossfade_ms the entry's fade_ms, current unchanged. *)
C6_CrossfadeStarts ==
  (/\ AfterTick /\ live_source = "scheduler" /\ ~last.pre_active
   /\ last.trans = "crossfade" /\ last.target # last.pre_current) =>
    /\ last.branch = "fade_start"
    /\ last.decided.active
    /\ last.decided.next = last.target
    /\ last.decided.strip_next # <<>>
    /\ last.decided.strip_next = make_strip(last.target, contents)
    /\ last.decided.start \in (clock - MaxDelay)..clock
    /\ last.decided.ms = last.fade_ms
    /\ last.decided.current = last.pre_current

(* C7: in Idle and scheduler mode, a proposal C # current with transition cut makes
   C current and rebuilds strip_curr in that tick; the controller stays Idle and
   the tick sets no next content. *)
C7_CutIsImmediate ==
  [][(/\ last'.op = "tick" /\ live_source = "scheduler" /\ ~crossfade_active
      /\ last'.trans = "cut" /\ last'.target # current_content_name) =>
       /\ current_content_name' = last'.target
       /\ strip_curr' = make_strip(last'.target, contents)
       /\ ~crossfade_active'
       /\ crossfade_start' = NoTime
       /\ strip_next' = <<>>
       /\ next_content_name' = next_content_name]_vars

(* a cut to a content of the registry *)
C7_Witness ==
  /\ AfterTick /\ last.branch = "cut"
  /\ HasKey(contents, last.target)
  /\ current_content_name = last.target
  /\ strip_curr # <<>>

(* C8: after the operator picks a content X in the live-content selector, and after
   the manual-mode tick that follows, current is X and the controller is Idle. *)
C8_ManualPickCuts ==
  (/\ last.op \in {"live_changed", "tick"}
   /\ live_source = "manual"
   /\ HasKey(contents, live_content_name)) =>
    /\ current_content_name = live_content_name
    /\ ~crossfade_active
    /\ crossfade_start = NoTime
    /\ strip_next = <<>>

(* C9: deleting the current content while a fade is active leaves current naming
   the first content of the registry (or empty when there is none) and the fade
   state cleared. *)
C9_DeleteActiveClearsFade ==
  (last.op = "del_content" /\ last.arg = last.pre_current /\ last.pre_active) =>
    /\ current_content_name = IF contents = <<>> THEN "" ELSE FirstKey(contents)
    /\ strip_curr = make_strip(current_content_name, contents)
    /\ ~crossfade_active
    /\ crossfade_start = NoTime
    /\ strip_next = <<>>

(* C10: when the scheduler's entry or the manual selection names a content that
   is not in the registry, the tick makes the first content of the registry live;
   only with an empty registry is the frame background only. *)
ProposedAbsent ==
  \/ /\ live_source = "scheduler" /\ ~last.pre_active
     /\ ~Falsy(last.target) /\ ~HasKey(contents, last.target)
  \/ /\ live_source = "manual"
     /\ ~Falsy(live_content_name) /\ ~HasKey(contents, live_content_name)

C10_AbsentFallsBackToFirst ==
  (AfterTick /\ ProposedAbsent) =>
    IF contents # <<>>
    THEN /\ current_content_name = FirstKey(contents)
         /\ strip_curr = make_strip(FirstKey(contents), contents)
         /\ last.frame[1].strip # <<>>
    ELSE last.frame[1].strip = <<>>

(* C17: after apply_preset the offset is 0 and the fade state is cleared: not
   fading, no fade start, no next strip and no next content name. *)
C17_ApplyPresetResets ==
  (last.op = "apply_preset") =>
    /\ offset = 0
    /\ ~crossfade_active
    /\ crossfade_start = NoTime
    /\ strip_next = <<>>
    /\ next_content_name = None

(* C18: loading a malformed preset leaves the registry, the scheduler entries, the
   current content, the offset and the fade state as they were. *)
C18_MalformedLoadChangesNothing ==
  [][last'.op = "load_preset_error" =>
       UNCHANGED <<contents, contents_list, entries, current_content_name, strip_curr,
                   offset, next_content_name, strip_next, crossfade_active,
                   crossfade_start, crossfade_ms>>]_vars

----------------------------------------------------------------------------
(* Functions called on their own.  The controller is not involved: its variables
   keep the values Main.__init__ gives them for a preset without contents and
   entries, and last holds one call: first its arguments (op = "args"), then the
   arguments together with what the call returned. *)

ctl == <<contents, contents_list, cur_row, entries, live_source, live_content_name,
         current_content_name, next_content_name, strip_curr, strip_next,
         crossfade_active, crossfade_start, crossfade_ms, offset, speed, clock>>

Constructed ==
  /\ contents = <<DefaultItem>>
  /\ contents_list = <<"Default">>
  /\ cur_row = 1
  /\ entries = <<>>
  /\ live_source = "scheduler"
  /\ live_content_name = None
  /\ current_content_name = "Default"
  /\ next_content_name = None
  /\ strip_curr = make_strip("Default", <<DefaultItem>>)
  /\ strip_next = <<>>
  /\ crossfade_active = FALSE
  /\ crossfade_start = NoTime
  /\ crossfade_ms = DefaultFadeMs
  /\ offset = 0
  /\ speed = DefaultSpeed
  /\ clock = 0

----------------------------------------------------------------------------
(* Scheduler.pick_content_name and in_range on their own *)

MaxEntries == 3
MaxDays == 2

(* the windows of the entries: within the day, and over midnight *)
Windows == { <<<<0, 1>>, <<1, 0>>>>, <<<<1, 1>>, <<0, 0>>>> }

(* entry lists; the content of the entry at index i is the name "e<i>", so that
   the name returned tells which entry was taken *)
EntryNames == <<"e1", "e2", "e3", "e4">>

EntryShapes ==
  { [type |-> "date", weekdays |-> {}, date |-> d, start |-> w[1], end |-> w[2]] :
      d \in 0..(MaxDays - 1), w \in Windows }
  \cup
  { [type |-> "daily", weekdays |-> wd, date |-> -1, start |-> w[1], end |-> w[2]] :
      wd \in {AllDays, {0}}, w \in Windows }

EntryLists ==
  UNION { { [i \in 1..n |->
              [type |-> f[i].type, weekdays |-> f[i].weekdays, date |-> f[i].date,
               start |-> f[i].start, end |-> f[i].end, content |-> EntryNames[i],
               transition |-> "cut", fade_ms |-> 0]] :
            f \in [1..n -> EntryShapes] } : n \in 0..MaxEntries }

(* times of day in minutes: 00:00, 02:00, 12:00, 22:00, 23:30, 23:59 *)
TimesOfDay == {0, 120, 720, 1320, 1410, 1439}

SchedulerInit ==
  /\ Constructed
  /\ \/ \E es \in EntryLists, now \in 0..(MaxDays * DayLen - 1) :
          last = [op |-> "args", fn |-> "pick_content_name", es |-> es, now |-> now]
     \/ \E es \in EntryLists, now \in 0..(MaxDays * DayLen - 1) :
          last = [op |-> "args", fn |-> "choose_target_content", es |-> es,
                  now |-> now]
     \/ \E t \in TimesOfDay, start \in TimesOfDay, end \in TimesOfDay :
          last = [op |-> "args", fn |-> "in_range", t |-> t, start |-> start,
                  end |-> end]

CallPickContentName ==
  /\ last.op = "args" /\ last.fn = "pick_content_name"
  /\ last' = [op |-> "pick_content_name", es |-> last.es, now |-> last.now,
              out |-> pick_content_name(last.es, last.now)]
  /\ UNCHANGED ctl

(* both evaluations at one reading of the clock *)
CallChooseTargetContent ==
  /\ last.op = "args" /\ last.fn = "choose_target_content"
  /\ last' = [op |-> "choose_target_content", es |-> last.es, now |-> last.now,
              out |-> choose_target_content(last.es, last.now),
              picked |-> pick_content_name(last.es, last.now)]
  /\ UNCHANGED ctl

CallInRange ==
  /\ last.op = "args" /\ last.fn = "in_range"
  /\ last' = [op |-> "in_range", t |-> last.t, start |-> last.start, end |-> last.end,
              out |-> in_range(last.t, last.start, last.end)]
  /\ UNCHANGED ctl

SchedulerNext ==
  \/ CallPickContentName
  \/ CallChooseTargetContent
  \/ CallInRange

SchedulerSpec == SchedulerInit /\ [][SchedulerNext]_vars

(* the entries of a list that match at a time, by kind *)
MatchingDates(es, now) ==
  {i \in DOMAIN es : /\ es[i].type = "date"
                     /\ es[i].date = DateOf(now)
                     /\ in_range(TimeOf(now), parse_time(es[i].start),
                                 parse_time(es[i].end))}

MatchingDailies(es, now) ==
  {i \in DOMAIN es : /\ es[i].type = "daily"
                     /\ WeekdayOf(now) \in es[i].weekdays
                     /\ in_range(TimeOf(now), parse_time(es[i].start),
                                 parse_time(es[i].end))}

Lowest(S) == CHOOSE i \in S : \A j \in S : i <= j

Picked == last.op = "pick_content_name"

(* C11: whenever at least one date entry matches, pick_content_name returns the
   content of a matching date entry, wherever the matching daily entries stand in
   the list. *)
C11_DateOutranksDaily ==
  (Picked /\ MatchingDates(last.es, last.now) # {}) =>
    \E i \in MatchingDates(last.es, last.now) : last.out = last.es[i].content

(* a matching daily entry stands before the matching date entry that is returned *)
C11_Witness ==
  /\ Picked
  /\ \E i \in MatchingDates(last.es, last.now) :
       /\ last.out = last.es[i].content
       /\ \E j \in MatchingDailies(last.es, last.now) : j < i

(* C12: pick_content_name returns the content of the lowest-index matching date
   entry, else of the lowest-index matching daily entry, else none. *)
C12_FirstMatchWins ==
  Picked =>
    LET D == MatchingDates(last.es, last.now)
        W == MatchingDailies(last.es, last.now)
    IN  last.out = IF D # {} THEN last.es[Lowest(D)].content
                   ELSE IF W # {} THEN last.es[Lowest(W)].content
                   ELSE None

(* no date entry matches and two daily entries do: the first one is returned *)
C12_Witness ==
  /\ Picked
  /\ MatchingDates(last.es, last.now) = {}
  /\ Cardinality(MatchingDailies(last.es, last.now)) >= 2
  /\ last.out = last.es[Lowest(MatchingDailies(last.es, last.now))].content

(* C13: in_range is inclusive at both ends; with start <= end it is
   start <= t <= end, with start > end it is t >= start or t <= end, so 23:30 is in
   22:00-02:00 and 12:00 is not. *)
C13_InRangeInclusive ==
  (last.op = "in_range") =>
    /\ (last.start <= last.end =>
          (last.out <=> (last.start <= last.t /\ last.t <= last.end)))
    /\ (last.start > last.end =>
          (last.out <=> (last.t >= last.start \/ last.t <= last.end)))
    /\ (last.start = 1320 /\ last.end = 120 /\ last.t = 1410 => last.out)
    /\ (last.start = 1320 /\ last.end = 120 /\ last.t = 720 => ~last.out)

(* a time that is the end of a window over midnight *)
C13_Witness ==
  /\ last.op = "in_range"
  /\ last.start = 1320 /\ last.end = 120 /\ last.t = 120
  /\ last.out

----------------------------------------------------------------------------
(* MasterStrip: the loop period and the sampling of the strip into a tile.  A
   strip of width text_w is the pixel columns 0 .. text_w-1 of its text; an image
   is the sequence of the columns it holds (rows, for the rotated vertical
   source), position p of the image at index p + 1. *)

RECURSIVE gcd(_, _)
gcd(a, b) == IF b = 0 THEN a ELSE gcd(b, a % b)

period_frames_is_width(text_w, int_speed_px_per_frame) == text_w

period_frames(text_w, int_speed_px_per_frame) ==
  text_w \div gcd(text_w, Max(1, int_speed_px_per_frame))

single(text_w) == [p \in 1..text_w |-> p - 1]

(* rebuild: double_h and double_v are the single image drawn twice, at 0 and at
   text_w *)
double_drawn_once(text_w) == [p \in 1..(2 * text_w) |-> p - 1]

double(text_w) ==
  [p \in 1..(2 * text_w) |->
     IF p <= text_w THEN single(text_w)[p] ELSE single(text_w)[p - text_w]]

(* An offset is a float of pixels; here it is a whole number of sub-pixel units,
   SubPx of them to the pixel.  int(...) truncates toward zero. *)
SubPx == 2

int_px_floor(u) == u \div SubPx

int_px(u) == IF u >= 0 THEN u \div SubPx ELSE -((-u) \div SubPx)

(* the x of tile_src_rect_h and the y of tile_src_rect_v, offset_px in sub-pixel
   units; Python's % of a positive modulus is never negative, as is % here *)
tile_src_rect_h(text_w, module_w, offset_px, module_index, reverse) ==
  IF reverse THEN int_px(-offset_px - module_index * module_w * SubPx) % text_w
  ELSE int_px(offset_px + module_index * module_w * SubPx) % text_w

tile_src_rect_v_same_sign(text_w, module_h, offset_px, module_index, reverse) ==
  int_px(offset_px + module_index * module_h * SubPx) % (2 * text_w)

tile_src_rect_v(text_w, module_h, offset_px, module_index, reverse) ==
  LET period == 2 * text_w
  IN  IF reverse THEN int_px(-offset_px - module_index * module_h * SubPx) % period
      ELSE int_px(offset_px + module_index * module_h * SubPx) % period

(* _draw_wrapped_h and _draw_wrapped_v are one loop, along x or along y.  A state
   of the loop: the source position x, what remains to draw, the destination
   position d, and the drawImage calls made so far, each a segment of take pixels
   from source position src to destination position dst. *)
draw_wrapped_begin(W, dst, dst_len, start) ==
  [W |-> W, x |-> start % W, remaining |-> dst_len, d |-> dst, segs |-> <<>>]

draw_wrapped_step_no_rewind(st) ==
  LET take == Min(st.remaining, st.W - st.x)
  IN  [st EXCEPT !.segs = Append(st.segs, [dst |-> st.d, take |-> take, src |-> st.x]),
                 !.remaining = st.remaining - take,
                 !.d = st.d + take]

draw_wrapped_step_in_place(st) ==
  LET take == Min(st.remaining, st.W - st.x)
  IN  [st EXCEPT !.segs = Append(st.segs, [dst |-> st.d, take |-> take, src |-> st.x]),
                 !.remaining = st.remaining - take,
                 !.x = 0]

draw_wrapped_step(st) ==
  LET take == Min(st.remaining, st.W - st.x)
  IN  [st EXCEPT !.segs = Append(st.segs, [dst |-> st.d, take |-> take, src |-> st.x]),
                 !.remaining = st.remaining - take,
                 !.d = st.d + take,
                 !.x = 0]

RECURSIVE draw_wrapped_run(_)
draw_wrapped_run(st) ==
  IF st.remaining > 0 THEN draw_wrapped_run(draw_wrapped_step(st)) ELSE st

(* the pixels the segments put at the destination positions dst .. dst+dst_len-1;
   -1 where no segment draws *)
Drawn(src_img, segs, dst, dst_len) ==
  [i \in 1..dst_len |->
     LET pos == dst + i - 1
         hit == {k \in DOMAIN segs : segs[k].dst <= pos /\ pos < segs[k].dst + segs[k].take}
     IN  IF hit = {} THEN -1
         ELSE LET k == CHOOSE k \in hit : \A j \in hit : j <= k
              IN  src_img[segs[k].src + (pos - segs[k].dst) + 1]]

Directions == {"left_right", "right_left", "top_down", "bottom_up"}

(* render_mapped_frame for one tile of the sequence: the strip pixels along the
   tile's scroll axis.  module is the tile's extent along that axis, which is
   also the step of the sampling from one tile to the next. *)
TilePixels(text_w, module, offset_px, idx, dirv) ==
  LET start == IF dirv \in {"top_down", "bottom_up"}
               THEN tile_src_rect_v(text_w, module, offset_px, idx, dirv = "bottom_up")
               ELSE tile_src_rect_h(text_w, module, offset_px, idx, dirv = "right_left")
      end == draw_wrapped_run(draw_wrapped_begin(2 * text_w, 0, module, start))
  IN  Drawn(double(text_w), end.segs, 0, module)

MaxTextW == 9
MaxSpeed == 4
MaxStart == 3
MaxTiles == 3
MaxModule == 3
MaxSubOffset == 7

StripInit ==
  /\ Constructed
  /\ \/ \E w \in 1..MaxTextW, s \in 1..MaxSpeed :
          last = [op |-> "args", fn |-> "period_frames", text_w |-> w, speed |-> s]
     \/ \E w \in 1..MaxTextW, s \in 1..MaxSpeed, o \in 0..MaxStart,
           idx \in 0..(MaxTiles - 1), m \in 1..MaxModule, dirv \in Directions :
          last = [op |-> "args", fn |-> "export_video", text_w |-> w, speed |-> s,
                  offset |-> o, idx |-> idx, module |-> m, dirv |-> dirv]
     \/ \E w \in 1..MaxTextW, o \in 0..MaxSubOffset, idx \in 0..(MaxTiles - 1),
           m \in 1..MaxModule, dirv \in Directions :
          last = [op |-> "args", fn |-> "tile_src_rect", text_w |-> w, offset |-> o,
                  idx |-> idx, module |-> m, dirv |-> dirv]

CallPeriodFrames ==
  /\ last.op = "args" /\ last.fn = "period_frames"
  /\ last' = [op |-> "period_frames", text_w |-> last.text_w, speed |-> last.speed,
              out |-> period_frames(last.text_w, last.speed)]
  /\ UNCHANGED ctl

(* export_video, lines 1333-1380: the tile in the first frame of the loop and in
   the frame that would follow the last one *)
ExportLoop ==
  /\ last.op = "args" /\ last.fn = "export_video"
  /\ LET int_speed == Max(1, last.speed)
         period == period_frames(last.text_w, int_speed)
     IN  last' = [op |-> "export_video", text_w |-> last.text_w, speed |-> last.speed,
                  offset |-> last.offset, idx |-> last.idx, module |-> last.module,
                  dirv |-> last.dirv, period |-> period,
                  first |-> TilePixels(last.text_w, last.module, last.offset,
                                       last.idx, last.dirv),
                  again |-> TilePixels(last.text_w, last.module,
                                       last.offset + period * int_speed * SubPx,
                                       last.idx, last.dirv)]
  /\ UNCHANGED ctl

(* render_mapped_frame, lines 1023-1032, for one tile: the strip position that
   tile_src_rect_h or tile_src_rect_v returns for the tile's direction, and the
   pixels drawn from there *)
CallTileSrcRect ==
  /\ last.op = "args" /\ last.fn = "tile_src_rect"
  /\ last' = [op |-> "tile_src_rect", text_w |-> last.text_w, offset |-> last.offset,
              idx |-> last.idx, module |-> last.module, dirv |-> last.dirv,
              start |-> IF last.dirv \in {"top_down", "bottom_up"}
                        THEN tile_src_rect_v(last.text_w, last.module, last.offset,
                                             last.idx, last.dirv = "bottom_up")
                        ELSE tile_src_rect_h(last.text_w, last.module, last.offset,
                                             last.idx, last.dirv = "right_left"),
              pixels |-> TilePixels(last.text_w, last.module, last.offset, last.idx,
                                    last.dirv)]
  /\ UNCHANGED ctl

StripNext ==
  \/ CallPeriodFrames
  \/ ExportLoop
  \/ CallTileSrcRect

StripSpec == StripInit /\ [][StripNext]_vars

(* C14: period_frames(s) is W / gcd(W, s), the smallest positive number n of
   frames such that n * s is a multiple of W. *)
C14_PeriodIsSmallest ==
  (last.op = "period_frames") =>
    LET W == last.text_w
        s == last.speed
        g == CHOOSE d \in 1..W : /\ W % d = 0 /\ s % d = 0
                                 /\ \A e \in 1..W : (W % e = 0 /\ s % e = 0) => e <= d
    IN  /\ last.out * g = W
        /\ last.out >= 1
        /\ (last.out * s) % W = 0
        /\ \A n \in 1..(last.out - 1) : (n * s) % W # 0

(* a period shorter than the width *)
C14_Witness ==
  /\ last.op = "period_frames"
  /\ last.text_w = 8 /\ last.speed = 4 /\ last.out = 2

(* C15: the strip pixels sampled into a tile at offset o0 + period_frames(s) * s
   are those sampled at o0, for every width, speed, start offset, tile index and
   tile direction. *)
C15_LoopCloses ==
  (last.op = "export_video") =>
    /\ last.again = last.first
    /\ \A i \in DOMAIN last.first : last.first[i] >= 0

(* a vertical tile whose start in the doubled source moves by an odd multiple of
   the strip width over the loop, and that wraps around the end of the source *)
C15_Witness ==
  /\ last.op = "export_video"
  /\ last.dirv = "bottom_up"
  /\ last.again = last.first
  /\ ((last.period * last.speed) \div last.text_w) % 2 = 1
  /\ last.module > 2 * last.text_w

----------------------------------------------------------------------------
(* The wrapped blit run one iteration at a time *)

MaxBuf == 4
MaxTileLen == 6
MaxDst == 1

BlitInit ==
  /\ Constructed
  /\ \E W \in 1..MaxBuf, dst \in 0..MaxDst, n \in 0..MaxTileLen, start \in 0..(MaxBuf + 1) :
       last = [op |-> "args", fn |-> "draw_wrapped", W |-> W, dst |-> dst,
               dst_len |-> n, start |-> start]

(* lines 988-991 and 1001-1004 *)
BlitBegin ==
  /\ last.op = "args" /\ last.fn = "draw_wrapped"
  /\ last' = [op |-> "draw_wrapped", dst |-> last.dst, dst_len |-> last.dst_len,
              start |-> last.start, returned |-> FALSE,
              st |-> draw_wrapped_begin(last.W, last.dst, last.dst_len, last.start)]
  /\ UNCHANGED ctl

(* one pass through the body of the while loop *)
BlitIterate ==
  /\ last.op = "draw_wrapped" /\ ~last.returned
  /\ last.st.remaining > 0
  /\ last' = [last EXCEPT !.st = draw_wrapped_step(last.st)]
  /\ UNCHANGED ctl

(* the loop condition fails *)
BlitReturn ==
  /\ last.op = "draw_wrapped" /\ ~last.returned
  /\ ~(last.st.remaining > 0)
  /\ last' = [last EXCEPT !.returned = TRUE]
  /\ UNCHANGED ctl

BlitNext ==
  \/ BlitBegin
  \/ BlitIterate
  \/ BlitReturn

BlitSpec == BlitInit /\ [][BlitNext]_vars /\ WF_vars(BlitNext)

RECURSIVE SumTakes(_)
SumTakes(segs) ==
  IF segs = <<>> THEN 0 ELSE segs[1].take + SumTakes(Tail(segs))

(* the segments drawn so far follow one another from the tile's start without gap
   or overlap, and none is empty *)
SegmentsContiguous ==
  LET segs == last.st.segs
  IN  /\ \A k \in DOMAIN segs : segs[k].take >= 1
      /\ segs # <<>> => segs[1].dst = last.dst
      /\ \A k \in 1..(Len(segs) - 1) : segs[k + 1].dst = segs[k].dst + segs[k].take
      /\ SumTakes(segs) + last.st.remaining = last.dst_len
      /\ last.st.remaining >= 0

C16_Covered ==
  (last.op = "draw_wrapped") =>
    /\ SegmentsContiguous
    /\ (last.returned => SumTakes(last.st.segs) = last.dst_len)

(* C16: the wrapped blit terminates, and its destination segments are contiguous,
   do not overlap and cover the tile's extent exactly. *)
C16_BlitCoversTile ==
  /\ []C16_Covered
  /\ (last.op = "args") ~> (last.op = "draw_wrapped" /\ last.returned)

(* a tile longer than the doubled buffer, started inside it: three segments *)
C16_Witness ==
  /\ last.op = "draw_wrapped" /\ last.returned
  /\ last.dst_len > last.st.W
  /\ last.start % last.st.W # 0
  /\ Len(last.st.segs) >= 3

----------------------------------------------------------------------------
(* _gen_rects_new_port: the tiles of one port.  A port is its start, its mode and
   its blocks <<[dir, count], ...>>; a tile is [x, y, w, h, dir]. *)

(* lines 104-107, 115, 120, 125, 130, 135, 140: the cursor after a block *)
NextCursor(mode, cur_x, cur_y, module_w, module_h) ==
  IF mode = "vertical" THEN <<cur_x + module_w, cur_y>>
  ELSE <<cur_x, cur_y + module_h>>

(* lines 111-125: tile k of a column; a direction that is neither bottom_up nor
   top_down stacks downward *)
TileY_downward(dirv, cur_y, k, module_h) == cur_y + k * module_h

TileY(dirv, cur_y, k, module_h) ==
  IF dirv = "bottom_up" THEN cur_y - k * module_h ELSE cur_y + k * module_h

(* lines 126-140: tile k of a row; a direction that is neither left_right nor
   right_left runs to the right *)
TileX_rightward(dirv, cur_x, k, module_w) == cur_x + k * module_w

TileX(dirv, cur_x, k, module_w) ==
  IF dirv = "right_left" THEN cur_x - k * module_w ELSE cur_x + k * module_w

(* the tag appended with the tile *)
TileTag(mode, dirv) ==
  IF mode = "vertical"
  THEN (IF dirv = "bottom_up" THEN "bottom_up" ELSE "top_down")
  ELSE (IF dirv = "right_left" THEN "right_left" ELSE "left_right")

BlockRects(mode, dirv, cur_x, cur_y, count, module_w, module_h) ==
  [n \in 1..count |->
     IF mode = "vertical"
     THEN [x |-> cur_x, y |-> TileY(dirv, cur_y, n - 1, module_h),
           w |-> module_w, h |-> module_h, dir |-> TileTag(mode, dirv)]
     ELSE [x |-> TileX(dirv, cur_x, n - 1, module_w), y |-> cur_y,
           w |-> module_w, h |-> module_h, dir |-> TileTag(mode, dirv)]]

(* the loop over the blocks, from the cursor <<cur_x, cur_y>> *)
RECURSIVE gen_rects_from(_, _, _, _, _, _)
gen_rects_from(blocks, mode, cur_x, cur_y, module_w, module_h) ==
  IF blocks = <<>> THEN <<>>
  ELSE LET blk == Head(blocks)
           nxt == NextCursor(mode, cur_x, cur_y, module_w, module_h)
           rest == gen_rects_from(Tail(blocks), mode, nxt[1], nxt[2], module_w, module_h)
       IN  IF blk.count <= 0 THEN rest
           ELSE BlockRects(mode, blk.dir, cur_x, cur_y, blk.count, module_w, module_h)
                  \o rest

(* a generator in which path_mode "reset" gives every block the direction of the
   first one *)
gen_rects_new_port_path_aware(port, module_w, module_h) ==
  LET blocks == IF port.path_mode = "reset"
                THEN [j \in DOMAIN port.blocks |->
                        [dir |-> port.blocks[1].dir, count |-> port.blocks[j].count]]
                ELSE port.blocks
  IN  gen_rects_from(blocks, port.mode, port.sx, port.sy, module_w, module_h)

(* line 95 reads the port's path_mode into _path_mode; nothing uses it *)
gen_rects_new_port(port, module_w, module_h) ==
  gen_rects_from(port.blocks, port.mode, port.sx, port.sy, module_w, module_h)

MaxBlocks == 3
MaxCount == 2

Starts == { <<0, 0>>, <<4, 9>> }
ModuleW == 2
ModuleH == 3

PathModes == {"snake", "reset"}

BlockLists ==
  UNION { [1..n -> [dir : Directions, count : 0..MaxCount]] : n \in 0..MaxBlocks }

PortInit ==
  /\ Constructed
  /\ \E mode \in {"vertical", "horizontal"}, st \in Starts, blocks \in BlockLists,
        path_mode \in PathModes :
       last = [op |-> "args", fn |-> "_gen_rects_new_port",
               port |-> [sx |-> st[1], sy |-> st[2], mode |-> mode,
                         path_mode |-> path_mode, blocks |-> blocks]]

CallGenRects ==
  /\ last.op = "args" /\ last.fn = "_gen_rects_new_port"
  /\ last' = [op |-> "_gen_rects_new_port", port |-> last.port,
              out |-> gen_rects_new_port(last.port, ModuleW, ModuleH)]
  /\ UNCHANGED ctl

PortNext == CallGenRects

PortSpec == PortInit /\ [][PortNext]_vars

(* the number of tiles of the first j blocks *)
RECURSIVE TilesBefore(_, _)
TilesBefore(blocks, j) ==
  IF j = 0 THEN 0 ELSE TilesBefore(blocks, j - 1) + blocks[j].count

(* tile k (from 0) of block j (from 1) in the port's output *)
TileOf(j, k) == last.out[TilesBefore(last.port.blocks, j - 1) + k + 1]

Expanded(mode) == last.op = "_gen_rects_new_port" /\ last.port.mode = mode

(* C19: in vertical mode every tile of block j (from 0) has x = sx + j*module_w,
   zero-count blocks advancing the column too; tile k has y = sy - k*module_h for
   bottom_up and sy + k*module_h for top_down; the port yields sum(count) tiles in
   block order, then k order. *)
C19_VerticalExpansion ==
  Expanded("vertical") =>
    LET blocks == last.port.blocks
    IN  /\ Len(last.out) = TilesBefore(blocks, Len(blocks))
        /\ \A j \in DOMAIN blocks : \A k \in 0..(blocks[j].count - 1) :
             /\ TileOf(j, k).x = last.port.sx + (j - 1) * ModuleW
             /\ blocks[j].dir = "bottom_up" => TileOf(j, k).y = last.port.sy - k * ModuleH
             /\ blocks[j].dir = "top_down" => TileOf(j, k).y = last.port.sy + k * ModuleH
             /\ TileOf(j, k).w = ModuleW /\ TileOf(j, k).h = ModuleH

(* a bottom_up column of two tiles after an empty block *)
C19_Witness ==
  /\ Expanded("vertical")
  /\ Len(last.port.blocks) >= 2
  /\ last.port.blocks[1].count = 0
  /\ last.port.blocks[2].dir = "bottom_up" /\ last.port.blocks[2].count = 2
  /\ last.out[2].x = last.port.sx + ModuleW
  /\ last.out[2].y = last.port.sy - ModuleH

(* C20: in horizontal mode every tile of block j (from 0) has y = sy + j*module_h,
   zero-count blocks advancing the row too; tile k has x = sx + k*module_w for
   left_right and sx - k*module_w for right_left. *)
C20_HorizontalExpansion ==
  Expanded("horizontal") =>
    LET blocks == last.port.blocks
    IN  /\ Len(last.out) = TilesBefore(blocks, Len(blocks))
        /\ \A j \in DOMAIN blocks : \A k \in 0..(blocks[j].count - 1) :
             /\ TileOf(j, k).y = last.port.sy + (j - 1) * ModuleH
             /\ blocks[j].dir = "left_right" => TileOf(j, k).x = last.port.sx + k * ModuleW
             /\ blocks[j].dir = "right_left" => TileOf(j, k).x = last.port.sx - k * ModuleW
             /\ TileOf(j, k).w = ModuleW /\ TileOf(j, k).h = ModuleH

(* a right_left row of two tiles after an empty block *)
C20_Witness ==
  /\ Expanded("horizontal")
  /\ Len(last.port.blocks) >= 2
  /\ last.port.blocks[1].count = 0
  /\ last.port.blocks[2].dir = "right_left" /\ last.port.blocks[2].count = 2
  /\ last.out[2].y = last.port.sy + ModuleH
  /\ last.out[2].x = last.port.sx - ModuleW

(* C21: every tile carries the direction of the block that generated it, in both
   port modes and for all four block directions. *)
C21_TagIsBlockDir ==
  (last.op = "_gen_rects_new_port") =>
    \A j \in DOMAIN last.port.blocks : \A k \in 0..(last.port.blocks[j].count - 1) :
      TileOf(j, k).dir = last.port.blocks[j].dir

----------------------------------------------------------------------------
(* The mapping of a preset: build_rois_from_preset and the part of apply_preset
   that derives the tile sequence.  A preset here is the record
     [module, ports, concat_port_order, contents, entries]
   where module is <<w, h>>, a port is [id, keyed, sx, sy, mode, blocks] (keyed
   says whether the port has a "start" or a "mode" key; without one, sx is the
   port's "x" and a block's dir is its "order"), and concat_port_order is <<>>
   when the key is absent and <<order>> when it is present. *)

(* lines 152-158: the ports of a preset that has none *)
DefaultBlocks ==
  << [dir |-> "bottom_up", count |-> 4], [dir |-> "top_down", count |-> 4],
     [dir |-> "bottom_up", count |-> 4] >>

DefaultPorts_single ==
  << [id |-> "port1", keyed |-> TRUE, sx |-> 0, sy |-> 824, mode |-> "vertical",
      blocks |-> DefaultBlocks] >>

DefaultPorts ==
  << [id |-> "port1", keyed |-> TRUE, sx |-> 0, sy |-> 824, mode |-> "vertical",
      blocks |-> DefaultBlocks],
     [id |-> "port2", keyed |-> TRUE, sx |-> 128, sy |-> 824, mode |-> "vertical",
      blocks |-> DefaultBlocks] >>

(* line 1234: the order used when the preset has no concat_port_order *)
DefaultConcatOrder == << "port1", "port2" >>

(* lines 167-178: a port without "start" and "mode"; at most four tiles a block,
   at fixed heights *)
ys_bottom_up == << 824, 568, 312, 56 >>
ys_top_down == << 0, 256, 512, 768 >>

RECURSIVE legacy_rects_from(_, _, _, _)
legacy_rects_from(blocks, x, module_w, module_h) ==
  IF blocks = <<>> THEN <<>>
  ELSE LET blk == Head(blocks)
           ys == IF blk.dir = "bottom_up" THEN ys_bottom_up ELSE ys_top_down
           cnt == Min(Max(blk.count, 0), Len(ys))
           tag == IF blk.dir = "bottom_up" THEN "bottom_up" ELSE "top_down"
       IN  [n \in 1..cnt |-> [x |-> x, y |-> ys[n], w |-> module_w, h |-> module_h,
                              dir |-> tag]]
             \o legacy_rects_from(Tail(blocks), x + module_w, module_w, module_h)

port_rects(port, module_w, module_h) ==
  IF port.keyed THEN gen_rects_new_port(port, module_w, module_h)
  ELSE legacy_rects_from(port.blocks, port.sx, module_w, module_h)

build_rois_from_preset(p) ==
  LET ports == IF p.ports = <<>> THEN DefaultPorts ELSE p.ports
  IN  [i \in DOMAIN ports |->
         [port_id |-> ports[i].id,
          rects |-> port_rects(ports[i], p.module[1], p.module[2])]]

(* line 1236, port_map: the last port of an id is the one the id names *)
HasPort(rois, pid) == \E i \in DOMAIN rois : rois[i].port_id = pid

PortNamed(rois, pid) ==
  rois[CHOOSE i \in DOMAIN rois :
         /\ rois[i].port_id = pid
         /\ \A j \in DOMAIN rois : rois[j].port_id = pid => j <= i]

(* lines 1237-1240 *)
RECURSIVE dest_sequence_in_port_order(_, _)
dest_sequence_in_port_order(rois, order) ==
  IF rois = <<>> THEN <<>>
  ELSE (IF \E n \in DOMAIN order : order[n] = Head(rois).port_id
        THEN Head(rois).rects ELSE <<>>)
         \o dest_sequence_in_port_order(Tail(rois), order)

RECURSIVE dest_sequence_of(_, _)
dest_sequence_of(rois, order) ==
  IF order = <<>> THEN <<>>
  ELSE (IF HasPort(rois, Head(order)) THEN PortNamed(rois, Head(order)).rects ELSE <<>>)
         \o dest_sequence_of(rois, Tail(order))

(* lines 1012-1036: the index and the strip position render_mapped_frame uses for
   each tile of the sequence; a tile of an unknown direction is drawn as
   left_right *)
tile_starts(dest_sequence, text_w, module_w, module_h, offset_px) ==
  [n \in DOMAIN dest_sequence |->
     LET dirv == dest_sequence[n].dir
         idx == n - 1
     IN  [idx |-> idx,
          start |-> IF dirv \in {"top_down", "bottom_up"}
                    THEN tile_src_rect_v(text_w, module_h, offset_px, idx,
                                         dirv = "bottom_up")
                    ELSE tile_src_rect_h(text_w, module_w, offset_px, idx,
                                         dirv = "right_left")]]

(* inputs *)
PortA ==
  [id |-> "port1", keyed |-> TRUE, sx |-> 0, sy |-> 9, mode |-> "vertical",
   blocks |-> << [dir |-> "bottom_up", count |-> 2], [dir |-> "top_down", count |-> 1] >>]

PortB ==
  [id |-> "port2", keyed |-> TRUE, sx |-> 4, sy |-> 0, mode |-> "horizontal",
   blocks |-> << [dir |-> "right_left", count |-> 2] >>]

PortOld ==
  [id |-> "port3", keyed |-> FALSE, sx |-> 8, sy |-> 0, mode |-> "vertical",
   blocks |-> << [dir |-> "top_down", count |-> 1], [dir |-> "bottom_up", count |-> 1] >>]

PortLists ==
  { <<>>, <<PortA>>, <<PortA, PortB>>, <<PortB, PortA, PortOld>> }

ConcatOrders ==
  { <<>>, << <<>> >>, << <<"port1", "port2">> >>, << <<"port2", "port1">> >>,
    << <<"port2">> >>, << <<"port1", "nope", "port2">> >>,
    << <<"port3", "port1">> >> }

Modules == { <<ModuleW, ModuleH>>, <<0, ModuleH>>, <<ModuleW, -1>> }

MappingContents == { <<>>, <<ItemA, ItemB>> }

(* no entry, an entry for B that matches at any time, an entry for A that does
   not match at the time the preset is applied *)
MappingEntries ==
  { <<>>, << Daily(AllDays, <<0, 0>>, <<1, 1>>, "B", "cut", 0) >>,
    << Daily(AllDays, <<1, 0>>, <<1, 0>>, "A", "cut", 0) >> }

MaxFrameOffset == 3
StripWidth == 8

PresetInit ==
  /\ Constructed
  /\ \E m \in Modules, ports \in PortLists, order \in ConcatOrders,
        c \in MappingContents, es \in MappingEntries :
       last = [op |-> "args", fn |-> "apply_preset",
               p |-> [module |-> m, ports |-> ports, concat_port_order |-> order,
                      contents |-> c, entries |-> es]]

(* apply_preset, lines 1230-1279, for what it derives from the preset *)
CallApplyPreset ==
  /\ last.op = "args" /\ last.fn = "apply_preset"
  /\ LET p == last.p
         concat_order == IF p.concat_port_order = <<>> THEN DefaultConcatOrder
                         ELSE p.concat_port_order[1]
         rois_ports == build_rois_from_preset(p)
         dest_sequence == dest_sequence_of(rois_ports, concat_order)
         c == PresetContents(p)
         picked == pick_content_name(p.entries, clock)
     IN  last' = [op |-> "apply_preset", p |-> p,
                  module_w |-> p.module[1], module_h |-> p.module[2],
                  concat_order |-> concat_order, rois_ports |-> rois_ports,
                  dest_sequence |-> dest_sequence,
                  num_modules |-> Max(1, Len(dest_sequence)),
                  contents |-> c, picked |-> picked,
                  current_content_name |-> Or(picked, c[1].name)]
  /\ UNCHANGED ctl

(* render_mapped_frame over the tile sequence of the applied preset *)
CallRenderMapped ==
  /\ last.op = "apply_preset"
  /\ \E offset_px \in 0..MaxFrameOffset :
       last' = [op |-> "render_mapped_frame", p |-> last.p,
                dest_sequence |-> last.dest_sequence, offset_px |-> offset_px,
                module_w |-> last.module_w, module_h |-> last.module_h,
                tiles |-> tile_starts(last.dest_sequence, StripWidth, last.module_w,
                                      last.module_h, offset_px)]
  /\ UNCHANGED ctl

PresetNext ==
  \/ CallApplyPreset
  \/ CallRenderMapped

PresetSpec == PresetInit /\ [][PresetNext]_vars

(* C22: a preset whose module width or height is zero or negative yields no tile:
   neither a port's tile list nor the tile sequence has any. *)
C22_BadModuleYieldsNoTile ==
  (last.op = "apply_preset" /\ (last.module_w <= 0 \/ last.module_h <= 0)) =>
    /\ last.dest_sequence = <<>>
    /\ \A i \in DOMAIN last.rois_ports : last.rois_ports[i].rects = <<>>

(* C23: the tile sequence is the concatenation, in the order of concat_port_order,
   of the tile lists of the configured ports named there: an id that names no port
   adds nothing, a port that is not named adds nothing, and the tile at position n
   of the sequence is rendered with module index n (counted from 0). *)
ConfiguredPorts(p) == IF p.ports = <<>> THEN DefaultPorts ELSE p.ports

IsPortId(p, pid) == \E i \in DOMAIN ConfiguredPorts(p) : ConfiguredPorts(p)[i].id = pid

TilesOfId(p, pid) ==
  LET ports == ConfiguredPorts(p)
      port == ports[CHOOSE i \in DOMAIN ports : ports[i].id = pid]
  IN  port_rects(port, p.module[1], p.module[2])

RECURSIVE Flatten(_)
Flatten(ss) == IF ss = <<>> THEN <<>> ELSE Head(ss) \o Flatten(Tail(ss))

NamedPorts(p, order) ==
  LET Named(pid) == IsPortId(p, pid) IN SelectSeq(order, Named)

ExpectedSequence(p, order) ==
  LET named == NamedPorts(p, order)
  IN  Flatten([i \in DOMAIN named |-> TilesOfId(p, named[i])])

C23_SequenceFollowsConcatOrder ==
  /\ (last.op = "apply_preset") =>
       last.dest_sequence = ExpectedSequence(last.p, last.concat_order)
  /\ (last.op = "render_mapped_frame") =>
       \A n \in DOMAIN last.dest_sequence :
         LET t == last.dest_sequence[n]
         IN  /\ last.tiles[n].idx = n - 1
             /\ last.tiles[n].start =
                  IF t.dir \in {"top_down", "bottom_up"}
                  THEN tile_src_rect_v(StripWidth, last.module_h, last.offset_px,
                                       n - 1, t.dir = "bottom_up")
                  ELSE tile_src_rect_h(StripWidth, last.module_w, last.offset_px,
                                       n - 1, t.dir = "right_left")

C23_Witness ==
  /\ last.op = "apply_preset"
  /\ last.concat_order = <<"port1", "nope", "port2">>
  /\ last.p.ports = <<PortB, PortA, PortOld>>
  /\ Len(last.dest_sequence) = 5
  /\ last.dest_sequence[1].dir = "bottom_up"
  /\ last.dest_sequence[5].dir = "right_left"

(* C28: a preset without ports gets the two ports port1 and port2, both in the tile
   sequence when the preset gives no concat order; a preset without contents gets
   exactly one content, which is current when no schedule entry matches. *)
C28_DefaultsFilledIn ==
  (last.op = "apply_preset") =>
    /\ (last.p.ports = <<>>) =>
         /\ Len(last.rois_ports) = 2
         /\ last.rois_ports[1].port_id = "port1"
         /\ last.rois_ports[2].port_id = "port2"
         /\ last.rois_ports[1].rects # <<>> /\ last.rois_ports[2].rects # <<>>
         /\ (last.p.concat_port_order = <<>>) =>
              last.dest_sequence = last.rois_ports[1].rects \o last.rois_ports[2].rects
    /\ (last.p.contents = <<>>) =>
         /\ Len(last.contents) = 1
         /\ (last.picked = None) => last.current_content_name = last.contents[1].name

C28_Witness ==
  /\ last.op = "apply_preset"
  /\ last.p.ports = <<>> /\ last.p.concat_port_order = <<>>
  /\ last.p.contents = <<>> /\ last.p.entries # <<>>
  /\ last.picked = None
  /\ last.current_content_name = "Default"
  /\ Len(last.dest_sequence) = 24

----------------------------------------------------------------------------
(* export_video, lines 1325-1389, one step per loop iteration.  The call's inputs
   are what the handler reads: whether resolve_ffmpeg finds an encoder, whether a
   content is current and has a strip, the speed (in SpeedUnits-ths of a pixel per
   frame), the fps, the strip width, the offset (in sub-pixel units), whether the
   file dialog returned a path, the output size, the crop widgets, whether Popen
   succeeds and which write to the pipe raises (-1: none). *)
SpeedUnits == 10

(* int(speed): truncation *)
int_trunc(t) == t \div SpeedUnits

(* int(round(speed)), speed >= 0: Python rounds a tie to the even neighbour *)
int_round(t) ==
  LET q == t \div SpeedUnits
      r == t % SpeedUnits
  IN  IF 2 * r < SpeedUnits THEN q
      ELSE IF 2 * r > SpeedUnits THEN q + 1
      ELSE IF q % 2 = 0 THEN q ELSE q + 1

(* line 1333 *)
export_int_speed(speed_px_per_frame) == Max(1, int_round(speed_px_per_frame))

(* lines 1349-1352; the crop is the whole frame before the clamp when the crop is
   disabled (lines 1345-1346) *)
clamp_size_to_frame(exp_w, full_w, exp_x) == Max(1, Min(exp_w, full_w))

clamp_size(exp_w, full_w, exp_x) == Max(1, Min(exp_w, full_w - exp_x))

export_crop(full_w, full_h, enabled, cx, cy, cw, ch) ==
  LET x0 == IF enabled THEN cx ELSE 0
      y0 == IF enabled THEN cy ELSE 0
      w0 == IF enabled THEN cw ELSE full_w
      h0 == IF enabled THEN ch ELSE full_h
      exp_x == Max(0, Min(x0, full_w - 1))
      exp_y == Max(0, Min(y0, full_h - 1))
  IN  << exp_x, exp_y, clamp_size(w0, full_w, exp_x), clamp_size(h0, full_h, exp_y) >>

(* crop_frame.sizeInBytes() of an RGB888 image: a scanline is padded to a multiple
   of four bytes *)
bytesPerLine(w) == ((w * 3 + 3) \div 4) * 4

sizeInBytes(w, h) == bytesPerLine(w) * h

(* the handler's locals and what it has done so far *)
ExportState(in, phase, int_speed, period, crop, i, local, frames, boxes, spawned) ==
  [op |-> "export_video", in |-> in, phase |-> phase, int_speed |-> int_speed,
   period |-> period, crop |-> crop, i |-> i, local |-> local, frames |-> frames,
   boxes |-> boxes, spawned |-> spawned]

Returned(in, boxes) == ExportState(in, "returned", 0, 0, <<0, 0, 0, 0>>, 0, 0, <<>>, boxes, 0)

(* lines 1388-1389: an exception raised inside the try block ends the loop *)
write_failed_ignored(st) ==
  [st EXCEPT !.i = st.i + 1, !.local = st.local + st.int_speed]

write_failed(st) ==
  [st EXCEPT !.phase = "returned", !.boxes = Append(st.boxes, "Exportfehler")]

MaxSpeedTenths == 45
MaxOutW == 4
MaxOutH == 2
MaxCrop == 4
MaxFailAt == 2
ExportFps == 3
ExportTextW == 8

ExportInputs(ffmpeg, named, strip, spd, text_w, off, dialog, fw, fh, en, cx, cy, cw, ch, popen, fail_at) ==
  [ffmpeg |-> ffmpeg, named |-> named, strip |-> strip, speed |-> spd,
   fps |-> ExportFps, text_w |-> text_w, offset |-> off, dialog |-> dialog,
   full_w |-> fw, full_h |-> fh, crop_enable |-> en,
   crop_x |-> cx, crop_y |-> cy, crop_w |-> cw, crop_h |-> ch,
   popen |-> popen, fail_at |-> fail_at]

ExportInit ==
  /\ Constructed
  /\ \E in \in
         { ExportInputs(f, n, st, 3 * SpeedUnits, ExportTextW, 0, d, MaxOutW, MaxOutH,
                        FALSE, 0, 0, 1, 1, po, fa) :
             f \in BOOLEAN, n \in BOOLEAN, st \in BOOLEAN, d \in BOOLEAN,
             po \in BOOLEAN, fa \in -1..MaxFailAt }
         \cup
         { ExportInputs(TRUE, TRUE, TRUE, sp, w, o, TRUE, MaxOutW, MaxOutH,
                        FALSE, 0, 0, 1, 1, TRUE, -1) :
             sp \in 0..MaxSpeedTenths, w \in {ExportTextW, ExportTextW + 1},
             o \in 0..1 }
         \cup
         { ExportInputs(TRUE, TRUE, TRUE, 4 * SpeedUnits, ExportTextW, 0, TRUE, fw, fh,
                        en, cx, cy, cw, ch, TRUE, -1) :
             fw \in 1..MaxOutW, fh \in 1..MaxOutH, en \in BOOLEAN,
             cx \in 0..MaxCrop, cy \in 0..1, cw \in 1..(MaxCrop + 1), ch \in 1..MaxOutH } :
       last = [op |-> "args", fn |-> "export_video", in |-> in]

(* lines 1326-1368: up to the start of the loop *)
ExportBegin ==
  /\ last.op = "args" /\ last.fn = "export_video"
  /\ LET in == last.in
         int_speed == export_int_speed(in.speed)
         period == IF in.strip THEN period_frames(in.text_w, int_speed) ELSE in.fps
         crop == export_crop(in.full_w, in.full_h, in.crop_enable,
                             in.crop_x, in.crop_y, in.crop_w, in.crop_h)
         started == ExportState(in, "loop", int_speed, period, crop, 0, 0, <<>>, <<>>, 1)
     IN  last' = IF ~in.ffmpeg THEN Returned(in, <<"FFmpeg fehlt">>)
                 ELSE IF ~in.named THEN Returned(in, <<"Fehler">>)
                 ELSE IF ~in.dialog THEN Returned(in, <<>>)
                 ELSE IF ~in.popen THEN write_failed(started)
                 ELSE started
  /\ UNCHANGED ctl

(* an iteration that keeps its progress in self.offset *)
ExportFrame_moving_offset ==
  /\ last.op = "export_video" /\ last.phase = "loop" /\ last.i < last.period
  /\ LET at == last.in.offset + last.local * SubPx
         bytes == sizeInBytes(last.crop[3], last.crop[4])
     IN  last' = IF last.in.fail_at = last.i THEN write_failed(last)
                 ELSE [last EXCEPT !.frames = Append(@, [at |-> at, bytes |-> bytes]),
                                   !.local = @ + last.int_speed,
                                   !.i = @ + 1]
  /\ offset' = offset + last.int_speed
  /\ UNCHANGED <<contents, contents_list, cur_row, entries, live_source,
                 live_content_name, current_content_name, next_content_name,
                 strip_curr, strip_next, crossfade_active, crossfade_start,
                 crossfade_ms, speed, clock>>

(* lines 1370-1380: one iteration of the loop *)
ExportFrame ==
  /\ last.op = "export_video" /\ last.phase = "loop" /\ last.i < last.period
  /\ LET at == last.in.offset + last.local * SubPx
         bytes == sizeInBytes(last.crop[3], last.crop[4])
     IN  last' = IF last.in.fail_at = last.i THEN write_failed(last)
                 ELSE [last EXCEPT !.frames = Append(@, [at |-> at, bytes |-> bytes]),
                                   !.local = @ + last.int_speed,
                                   !.i = @ + 1]
  /\ UNCHANGED ctl

(* lines 1381-1387: the loop has run out *)
ExportFinish ==
  /\ last.op = "export_video" /\ last.phase = "loop" /\ last.i = last.period
  /\ last' = [last EXCEPT !.phase = "returned", !.boxes = Append(@, "Fertig")]
  /\ UNCHANGED ctl

ExportNext ==
  \/ ExportBegin
  \/ ExportFrame
  \/ ExportFinish

ExportSpec == ExportInit /\ [][ExportNext]_vars

(* C24: every frame written is exactly exp_w * exp_h * 3 bytes, whatever the
   export width. *)
C24_FrameIsTightlyPacked ==
  (last.op = "export_video") =>
    \A n \in DOMAIN last.frames :
      last.frames[n].bytes = last.crop[3] * last.crop[4] * 3

(* C25: with a current strip, the export writes exactly period_frames(int_speed)
   frames, int_speed being an integer nearest to the configured speed and at least
   1, and the frame numbered i from 0 is rendered at offset + i * int_speed. *)
Abs(n) == IF n < 0 THEN -n ELSE n

Exporting == last.op = "export_video" /\ last.spawned = 1 /\ last.in.popen

C25_ExportWritesOnePeriod ==
  (Exporting /\ last.in.strip) =>
    /\ last.int_speed >= 1
    /\ (2 * last.in.speed >= SpeedUnits) =>
         2 * Abs(last.int_speed * SpeedUnits - last.in.speed) <= SpeedUnits
    /\ last.period = period_frames(last.in.text_w, last.int_speed)
    /\ \A n \in DOMAIN last.frames :
         last.frames[n].at = last.in.offset + (n - 1) * last.int_speed * SubPx
    /\ Len(last.frames) <= last.period
    /\ (last.phase = "returned" /\ last.in.fail_at = -1) =>
         Len(last.frames) = last.period

C25_Witness ==
  /\ Exporting /\ last.in.strip /\ last.phase = "returned"
  /\ last.boxes = <<"Fertig">>
  /\ last.in.speed = 2 * SpeedUnits + 5 /\ last.in.text_w = ExportTextW
  /\ last.in.offset = 1
  /\ Len(last.frames) = last.period /\ last.period > 1
  /\ last.frames[2].at = 1 + last.int_speed * SubPx

(* C26: the rectangle the export crops to lies inside the output frame, for every
   setting of the crop widgets and every output size of at least 1 x 1, and it is
   the whole frame when the crop is disabled. *)
C26_CropInsideFrame ==
  Exporting =>
    LET x == last.crop[1]
        y == last.crop[2]
        w == last.crop[3]
        h == last.crop[4]
    IN  /\ 0 <= x /\ 0 <= y /\ w >= 1 /\ h >= 1
        /\ x + w <= last.in.full_w /\ y + h <= last.in.full_h
        /\ ~last.in.crop_enable => last.crop = <<0, 0, last.in.full_w, last.in.full_h>>

C26_Witness ==
  /\ Exporting /\ last.in.crop_enable
  /\ last.in.crop_x = MaxCrop /\ last.in.crop_w = MaxCrop + 1
  /\ last.in.full_w = MaxCrop - 1
  /\ last.crop[1] = MaxCrop - 2 /\ last.crop[3] = 1
  /\ Len(last.frames) = 1

(* C27: without an encoder, or when starting it or a write to its pipe fails, the
   export ends with an error box, having written the frames before the failure
   and no other, and having started the encoder at most once. *)
C27_ExportAbortsOnSinkError ==
  (last.op = "export_video") =>
    /\ last.spawned <= 1
    /\ ~last.in.ffmpeg =>
         /\ last.phase = "returned" /\ last.boxes = <<"FFmpeg fehlt">>
         /\ last.frames = <<>> /\ last.spawned = 0
    /\ (last.spawned = 1 /\ ~last.in.popen) =>
         /\ last.phase = "returned" /\ last.boxes = <<"Exportfehler">>
         /\ last.frames = <<>>
    /\ (Exporting /\ last.in.fail_at \in 0..(last.period - 1)) =>
         /\ Len(last.frames) <= last.in.fail_at
         /\ (last.phase = "returned") =>
              /\ last.boxes = <<"Exportfehler">>
              /\ Len(last.frames) = last.in.fail_at

C27_Witness ==
  /\ Exporting /\ last.phase = "returned"
  /\ last.in.fail_at = 1 /\ last.period > 2
  /\ Len(last.frames) = 1
  /\ last.boxes = <<"Exportfehler">>

(* C29: for an offset >= 0 and a module index i, a left_right tile starts at
   (floor(offset) + i * module_w) mod text_w and a right_left tile at
   (-offset - i * module_w, truncated toward zero) mod text_w; both lie in
   [0, text_w). *)
WholePixels(u) == u \div SubPx

C29_HorizontalStart ==
  (last.op = "tile_src_rect" /\ last.dirv \in {"left_right", "right_left"}) =>
    /\ last.start \in 0..(last.text_w - 1)
    /\ (last.dirv = "left_right") =>
         last.start = (WholePixels(last.offset) + last.idx * last.module) % last.text_w
    /\ (last.dirv = "right_left") =>
         last.start =
           (-WholePixels(last.offset + last.idx * last.module * SubPx)) % last.text_w

C29_Witness ==
  /\ last.op = "tile_src_rect" /\ last.dirv = "right_left"
  /\ last.offset % SubPx # 0 /\ last.offset > SubPx
  /\ last.idx = 2 /\ last.module = 2 /\ last.text_w = 5
  /\ last.start = (-(WholePixels(last.offset) + 4)) % 5

(* C30 as stated: the start of a top_down or bottom_up tile lies in
   [0, text_length), text_length being the height of the single strip. *)
C30_VerticalStartBelowLength ==
  (last.op = "tile_src_rect" /\ last.dirv \in {"top_down", "bottom_up"}) =>
    last.start \in 0..(last.text_w - 1)

(* C30: the start of a top_down or bottom_up tile is (+/-offset + index * module_h),
   truncated, modulo twice the strip length, so it lies in [0, 2 * text_length);
   the pixels drawn from it are those drawn from the same start modulo
   text_length. *)
C30_VerticalStart ==
  (last.op = "tile_src_rect" /\ last.dirv \in {"top_down", "bottom_up"}) =>
    LET whole == WholePixels(last.offset + last.idx * last.module * SubPx)
        signed == IF last.dirv = "bottom_up" THEN -whole ELSE whole
        reduced == draw_wrapped_run(draw_wrapped_begin(2 * last.text_w, 0, last.module,
                                                       signed % last.text_w))
    IN  /\ last.start \in 0..(2 * last.text_w - 1)
        /\ last.start = signed % (2 * last.text_w)
        /\ last.pixels = Drawn(double(last.text_w), reduced.segs, 0, last.module)

C30_Witness ==
  /\ last.op = "tile_src_rect" /\ last.dirv = "bottom_up"
  /\ last.text_w = 4 /\ last.idx = 1 /\ last.module = 3 /\ last.offset = 1
  /\ last.start = 5

----------------------------------------------------------------------------
(* C31: when the source is a doubled strip (W = 2 * text_w), every drawImage call
   of the wrapped blit reads inside [0, 2 * text_w), and pixel j of the tile,
   counted from 0, shows pixel (start + j) mod text_w of the single strip, for
   tiles shorter and longer than the strip and than the doubled strip. *)
C31_BlitShowsStripFromStart ==
  (last.op = "draw_wrapped" /\ last.returned /\ last.st.W % 2 = 0) =>
    LET text_w == last.st.W \div 2
        segs == last.st.segs
        shown == Drawn(double(text_w), segs, last.dst, last.dst_len)
    IN  /\ \A k \in DOMAIN segs :
             segs[k].src >= 0 /\ segs[k].src + segs[k].take <= 2 * text_w
        /\ \A j \in 0..(last.dst_len - 1) :
             shown[j + 1] = single(text_w)[((last.start + j) % text_w) + 1]

C31_Witness ==
  /\ last.op = "draw_wrapped" /\ last.returned
  /\ last.st.W = 4 /\ last.start = 3 /\ last.dst_len = 6
  /\ Len(last.st.segs) = 3
  /\ last.st.segs[2].src = 0 /\ last.st.segs[2].take = 4

----------------------------------------------------------------------------
(* C32: every tick adds the speed, which is positive, to the offset, whatever the
   live source and the state of the fade; no other handler changes the offset,
   except that applying a preset sets it to 0. *)
C32_OffsetAccumulates ==
  [][ /\ (last'.op = "tick") => (speed > 0 /\ offset' = offset + speed)
      /\ (last'.op = "apply_preset") => offset' = 0
      /\ (last'.op \notin {"tick", "apply_preset"}) => offset' = offset ]_vars

C32_Witness ==
  /\ last.op = "tick" /\ live_source = "manual"
  /\ last.pre_active
  /\ offset >= 2 * speed

----------------------------------------------------------------------------
(* C33: the tiles generated for a port are those generated for the same port with
   the other path_mode. *)
OtherPathMode(m) == IF m = "snake" THEN "reset" ELSE "snake"

C33_PathModeHasNoEffect ==
  (last.op = "_gen_rects_new_port") =>
    last.out = gen_rects_new_port(
                 [last.port EXCEPT !.path_mode = OtherPathMode(last.port.path_mode)],
                 ModuleW, ModuleH)

C33_Witness ==
  /\ last.op = "_gen_rects_new_port"
  /\ last.port.path_mode = "reset" /\ last.port.mode = "vertical"
  /\ Len(last.port.blocks) = 2
  /\ last.port.blocks[1] = [dir |-> "bottom_up", count |-> 2]
  /\ last.port.blocks[2] = [dir |-> "top_down", count |-> 2]
  /\ Len(last.out) = 4 /\ last.out[3].dir = "top_down"

----------------------------------------------------------------------------
(* C34: whenever the registry is not empty, current_content_name is one of its
   keys. *)
C34_CurrentIsRegistered ==
  (contents # <<>>) => HasKey(contents, current_content_name)

(* C35: while a fade is active there is a next strip, a start time and a next
   content name. *)
C35_ActiveFadeIsWellFormed ==
  crossfade_active =>
    /\ strip_next # <<>>
    /\ crossfade_start # NoTime
    /\ next_content_name # None

----------------------------------------------------------------------------
(* C36: for every entry list and every time, choose_target_content returns the
   name that pick_content_name returns, together with the entry that gave the
   name: the first matching date entry, else the first matching daily entry, else
   no name and no entry. *)
C36_EvaluationsAgree ==
  (last.op = "choose_target_content") =>
    /\ last.out.name = last.picked
    /\ (last.picked = None) <=> (last.out.entry = <<>>)
    /\ (last.out.entry # <<>>) =>
         LET e == last.out.entry[1]
         IN  /\ e.content = last.out.name
             /\ \E i \in DOMAIN last.es : last.es[i] = e
             /\ DateMatch(e, last.now) \/ DailyMatch(e, last.now)
             /\ (\E i \in DOMAIN last.es : DateMatch(last.es[i], last.now))
                  => DateMatch(e, last.now)

C36_Witness ==
  /\ last.op = "choose_target_content"
  /\ Len(last.es) = 3
  /\ DailyMatch(last.es[1], last.now)
  /\ DateMatch(last.es[3], last.now)
  /\ last.out.entry = <<last.es[3]>>
  /\ last.picked = "e3"

----------------------------------------------------------------------------
(* The content editor: add_content, dup_content, del_content and
   commit_current_content_edits, with the list selection and the live-content
   combo box.  The name and text fields of the editor are what the operator has
   typed when the handler runs. *)

(* self.contents[item.name] = item: a key that exists keeps its place *)
Put(c, item) ==
  IF HasKey(c, item.name)
  THEN [i \in DOMAIN c |-> IF c[i].name = item.name THEN item ELSE c[i]]
  ELSE Append(c, item)

MaxContents == 3

(* the rows the operator duplicates, and what the operator types into the name and
   text fields *)
DupSources == {"A", "Content3"}
EditNames == {"", "N"}
EditTexts == {"x"}

(* lines 713-718 *)
add_content ==
  /\ Len(contents_list) < MaxContents
  /\ LET base == [name |-> "Content" \o ToString(Len(contents) + 1),
                  text |-> "NEUER TEXT - ", bg_rgb |-> Black]
     IN  /\ contents' = Put(contents, base)
         /\ contents_list' = Append(contents_list, base.name)
         /\ cur_row' = Len(contents_list) + 1
         /\ last' = Did("add_content", base.name)
  /\ UNCHANGED <<entries, live_source, live_content_name, current_content_name,
                 next_content_name, strip_curr, strip_next, crossfade_active,
                 crossfade_start, crossfade_ms, offset, speed, clock>>

(* lines 724-728: the first of old_copy, old_copy2, old_copy3, ... that is free *)
CopyName(c, old_name) ==
  IF ~HasKey(c, old_name \o "_copy") THEN old_name \o "_copy"
  ELSE LET free == {i \in 2..(Len(c) + 2) : ~HasKey(c, old_name \o "_copy" \o ToString(i))}
           i == CHOOSE i \in free : \A j \in free : i <= j
       IN  old_name \o "_copy" \o ToString(i)

(* lines 720-733; self.contents[cur.text()] raises KeyError for a row whose name
   is not a key of the registry, before anything is changed *)
dup_content ==
  /\ cur_row # 0
  /\ Len(contents_list) < MaxContents
  /\ contents_list[cur_row] \in DupSources
  /\ LET name == contents_list[cur_row]
     IN  IF ~HasKey(contents, name)
         THEN /\ last' = [Did("dup_content", name) EXCEPT !.branch = "KeyError"]
              /\ UNCHANGED <<contents, contents_list, cur_row>>
         ELSE LET old == Get(contents, name)
                  new_name == CopyName(contents, name)
              IN  /\ contents' = Put(contents, [old EXCEPT !.name = new_name])
                  /\ contents_list' = Append(contents_list, new_name)
                  /\ cur_row' = Len(contents_list) + 1
                  /\ last' = Did("dup_content", new_name)
  /\ UNCHANGED <<entries, live_source, live_content_name, current_content_name,
                 next_content_name, strip_curr, strip_next, crossfade_active,
                 crossfade_start, crossfade_ms, offset, speed, clock>>

(* lines 1288-1311; branch tells where the handler left: "empty" (line 1291),
   "exists" (line 1297), "KeyError" (line 1299, the row's name is not a key of the
   registry), "renamed" or "edited" *)
commit_current_content_edits(c_name, c_text) ==
  LET has_item == cur_row # 0
      old_name == IF has_item THEN contents_list[cur_row] ELSE None
      renames == has_item /\ c_name # old_name
      popped == Pop(contents, old_name)
      moved == Append(popped, [Get(contents, old_name) EXCEPT !.name = c_name])
      c1 == IF renames THEN moved ELSE contents
      l1 == IF renames THEN [contents_list EXCEPT ![cur_row] = c_name] ELSE contents_list
      cur1 == IF renames /\ current_content_name = old_name THEN c_name
              ELSE current_content_name
      live1 == IF renames /\ live_source = "manual" /\ live_content_name = old_name
               THEN c_name ELSE live_content_name
      c2 == IF HasKey(c1, c_name) THEN c1
            ELSE Append(c1, [name |-> c_name, text |-> "", bg_rgb |-> Black])
      c3 == Put(c2, [Get(c2, c_name) EXCEPT !.text = c_text])
      quiet == <<contents, contents_list, current_content_name, live_content_name,
                 strip_curr>>
  IN  /\ IF c_name = ""
         THEN /\ last' = [Did("commit", c_name) EXCEPT !.branch = "empty"]
              /\ UNCHANGED quiet
         ELSE IF renames /\ HasKey(contents, c_name)
         THEN /\ last' = [Did("commit", c_name) EXCEPT !.branch = "exists"]
              /\ UNCHANGED quiet
         ELSE IF renames /\ ~HasKey(contents, old_name)
         THEN /\ last' = [Did("commit", c_name) EXCEPT !.branch = "KeyError"]
              /\ UNCHANGED quiet
         ELSE /\ contents' = c3
              /\ contents_list' = l1
              /\ current_content_name' = cur1
              /\ live_content_name' = live1
              /\ strip_curr' = IF cur1 = c_name THEN make_strip(cur1, c3) ELSE strip_curr
              /\ last' = [Did("commit", c_name) EXCEPT
                            !.branch = IF renames THEN "renamed" ELSE "edited"]
      /\ UNCHANGED <<cur_row, entries, live_source, next_content_name, strip_next,
                     crossfade_active, crossfade_start, crossfade_ms, offset, speed,
                     clock>>

CommitEdits ==
  \E c_name \in KeySet(contents) \cup EditNames, c_text \in EditTexts :
    commit_current_content_edits(c_name, c_text)

(* Main.__init__ with a preset of the contents A and B and no schedule entry *)
RegistryInit ==
  /\ contents = <<ItemA, ItemB>>
  /\ contents_list = <<"A", "B">>
  /\ cur_row = 1
  /\ entries = <<>>
  /\ live_source = "scheduler"
  /\ live_content_name = None
  /\ current_content_name = "A"
  /\ next_content_name = None
  /\ strip_curr = make_strip("A", <<ItemA, ItemB>>)
  /\ strip_next = <<>>
  /\ crossfade_active = FALSE
  /\ crossfade_start = NoTime
  /\ crossfade_ms = DefaultFadeMs
  /\ offset = 0
  /\ speed = DefaultSpeed
  /\ clock = 0
  /\ last = NoLast

RegistryNext ==
  \/ add_content
  \/ dup_content
  \/ del_content
  \/ CommitEdits
  \/ SelectContent
  \/ LiveContentChanged

RegistrySpec == RegistryInit /\ [][RegistryNext]_vars

NoDuplicates(l) == \A i, j \in DOMAIN l : l[i] = l[j] => i = j

(* C37: add_content enlarges the registry by exactly one new name, leaves every
   content that was there as it was, and leaves the names of the list widget equal
   to the keys of the registry, each once. *)
C37_AddNeverOverwrites ==
  [][ (last'.op = "add_content") =>
        /\ Len(contents') = Len(contents) + 1
        /\ ~HasKey(contents, last'.arg) /\ HasKey(contents', last'.arg)
        /\ \A i \in DOMAIN contents : contents'[i] = contents[i]
        /\ (contents_list = Keys(contents) /\ NoDuplicates(contents_list)) =>
             (contents_list' = Keys(contents') /\ NoDuplicates(contents_list')) ]_vars

(* C38: a commit that renames the selected row to a name the registry has is
   refused and changes neither the registry nor the current nor the live name; a
   commit that renames it to a free name moves the content to the new key, with
   its name field equal to the key, and the current and the manually selected
   name follow the rename. *)
RenamesRow ==
  /\ last'.op = "commit" /\ cur_row # 0
  /\ last'.arg # "" /\ last'.arg # contents_list[cur_row]

C38_RenameKeepsKeysUnique ==
  [][ /\ (RenamesRow /\ HasKey(contents, last'.arg)) =>
           UNCHANGED <<contents, current_content_name, live_content_name>>
      /\ (RenamesRow /\ ~HasKey(contents, last'.arg)) =>
           LET old_name == contents_list[cur_row]
               new_name == last'.arg
           IN  /\ HasKey(contents', new_name) /\ ~HasKey(contents', old_name)
               /\ NoDuplicates(Keys(contents'))
               /\ Len(contents') = Len(contents)
               /\ contents_list'[cur_row] = new_name
               /\ (current_content_name = old_name) => current_content_name' = new_name
               /\ (live_source = "manual" /\ live_content_name = old_name) =>
                    live_content_name' = new_name ]_vars

(* the same for the rows whose name is a key of the registry *)
C38_RenameOfRegisteredRow ==
  [][ (RenamesRow /\ ~HasKey(contents, last'.arg)
         /\ HasKey(contents, contents_list[cur_row])) =>
           LET old_name == contents_list[cur_row]
               new_name == last'.arg
           IN  /\ HasKey(contents', new_name) /\ ~HasKey(contents', old_name)
               /\ NoDuplicates(Keys(contents'))
               /\ Len(contents') = Len(contents)
               /\ contents_list'[cur_row] = new_name
               /\ (current_content_name = old_name) => current_content_name' = new_name
               /\ (live_source = "manual" /\ live_content_name = old_name) =>
                    live_content_name' = new_name ]_vars

----------------------------------------------------------------------------
(* C39: no step of export_video, whether the export completes or aborts, changes
   the offset, the current or the next content name, the fade fields or the live
   source. *)
C39_ExportLeavesTickerState ==
  [][ (last'.op = "export_video") =>
        UNCHANGED <<offset, current_content_name, next_content_name,
                    crossfade_active, crossfade_start, crossfade_ms, live_source,
                    live_content_name, strip_curr, strip_next>> ]_vars

C39_Witness ==
  /\ last.op = "export_video" /\ last.phase = "returned"
  /\ last.in.fail_at = 2 /\ Len(last.frames) = 2
  /\ last.boxes = <<"Exportfehler">>
  /\ offset = 0 /\ current_content_name = "Default" /\ ~crossfade_active
====
